---- MODULE Spec2Model ----
(***************************************************************************)
(* dup-finder: pairwise name matching (internal/finder), on-demand hashing *)
(* and the interactive deletion session (internal/interactive).            *)
(*                                                                         *)
(* Conventions.  Go slices are TLA+ sequences, so Files[1] is Go's         *)
(* Files[0].  A path is the sequence of its components, <<dir, name>>, so  *)
(* filepath.Base is the last component; the empty path "" is <<>>.  A      *)
(* fingerprint is "" (absent) or a 16-digit hex string, written "h1",      *)
(* "h2".  FileInfo.ModTime is only printed and is left out.                *)
(***************************************************************************)
EXTENDS Integers, Sequences, FiniteSets, TLC

VARIABLES
    opts,           \* models.ScanOptions: Directories, CompareHash, NumWorkers
    dir1Files,      \* ComparePair's first argument
    dir2Files,      \* ComparePair's second argument
    comparisons,    \* []models.PairComparison
    sets,           \* RunInteractiveSession: sets
    pc,             \* position in the running function
    i,              \* RunInteractiveSession: index of the loop over sets (1-based)
    actions,        \* RunInteractiveSession: actions
    batchDirAction, \* RunInteractiveSession: batchDirAction
    summary,        \* the *models.SessionSummary being returned
    err,            \* the error being returned ("" is nil)
    k,              \* RunInteractiveSession: index of the loop over actions (1-based)
    removed,        \* paths removed from the file system by os.Remove
    hist,           \* history: what was displayed, prompted and decided, per set
    pairs,          \* runDupFinder: pairs, the result of GeneratePairs
    submitted,      \* ComputeHashesParallel: files, a list of pointers to records
    heap,           \* the models.FileInfo records the pointers point to
    concurrency,    \* ComputeHashesParallel: numWorkers
    jobs,           \* ComputeHashesParallel: the jobs channel (positions of files)
    jobsClosed,     \* whether close(jobs) has run
    errors,         \* ComputeHashesParallel: the errors channel
    workers,        \* the worker goroutines: position, job in hand
    hpc,            \* position of the goroutine that runs ComputeHashesParallel
    sent,           \* how many jobs the submit loop has sent
    firstError,     \* ComputeHashesParallel: firstError ("" is nil)
    disk,           \* what the file at each path holds
    hhist,          \* history of the hashing: attempts per submitted position
    poolResults,    \* WorkerPool: the results channel
    resultsClosed,  \* whether close(wp.results) has run
    scanFiles,      \* Scan: files, what the collector has appended
    spc,            \* position of the goroutine that runs Scan
    collector       \* position of the goroutine that collects the results

\* The variables of the hashing call.
hashVars == <<submitted, heap, concurrency, jobs, jobsClosed, errors, workers, hpc,
              sent, firstError, disk, hhist>>

\* The variables of the comparison and of the session.
sessionVars == <<opts, dir1Files, dir2Files, comparisons, sets, pc, i, actions,
                 batchDirAction, summary, err, k, removed, hist>>

\* The variables of a scan.
scanVars == <<poolResults, resultsClosed, scanFiles, spc, collector>>

vars == <<sessionVars, pairs, hashVars, scanVars>>

\* No scan is being followed.
ScanIdle ==
    /\ poolResults = <<>>
    /\ resultsClosed = FALSE
    /\ scanFiles = <<>>
    /\ spc = "idle"
    /\ collector = "idle"

(***************************************************************************)
(* Bounds and input domains                                                *)
(***************************************************************************)
\* At most MaxNames file names in a directory, at most MaxSets sets in a run.
MaxNames == 2

MaxSets == 3

\* The file names of the model, in string order.
NameOrder == <<"x", "y", "z", "zz">>

NamesUpTo(m) == {NameOrder[j] : j \in 1..m}

ArgChoices == {<<"dA", "dB">>, <<"dA", "dA">>, <<"dA", "dB", "dC">>}

WorkerChoices == {0, 2}

\* What a file holds when it is opened for hashing.
Contents == {"cA", "cB", "unreadable"}

\* What the two files of a pair hold when they are opened: the same content,
\* different contents, or one or both unreadable (the first content that is
\* read is called cA).
ReadPairs ==
    {<<"cA", "cA">>, <<"cA", "cB">>, <<"cA", "unreadable">>, <<"unreadable", "cA">>,
     <<"unreadable", "unreadable">>}

NoPath == <<>>

\* What two reads in one hashing call can find at two paths: one file read
\* twice is found the same twice.
ReadsOf(path1, path2) ==
    IF path1 = path2 THEN {r \in ReadPairs : r[1] = r[2]} ELSE ReadPairs

(***************************************************************************)
(* Helpers on sequences and names                                          *)
(***************************************************************************)
Range(s) == {s[j] : j \in DOMAIN s}

\* String order on the file names of the model.
NameRank(n) == CHOOSE j \in DOMAIN NameOrder : NameOrder[j] = n

NameLess(a, b) == NameRank(a) < NameRank(b)

\* filepath.Base: the last component of a path.
Base(path) == IF Len(path) = 0 THEN "." ELSE path[Len(path)]

\* info.Size() of the file at a path.
FileSize(path) == NameRank(Base(path))

\* len() of a fingerprint: "%x" of the 8 bytes of an xxhash sum, or "".
HashLen(h) == IF h = "" THEN 0 ELSE 16

RECURSIVE SortedNames(_)
SortedNames(S) ==
    IF S = {} THEN <<>>
    ELSE LET m == CHOOSE n \in S : \A o \in S : o = n \/ NameLess(n, o)
         IN  <<m>> \o SortedNames(S \ {m})

RECURSIVE Flatten(_)
Flatten(ss) == IF Len(ss) = 0 THEN <<>> ELSE Head(ss) \o Flatten(Tail(ss))

Perms(S) == {p \in [1..Cardinality(S) -> S] : \A a \in S : \E j \in DOMAIN p : p[j] = a}

(***************************************************************************)
(* internal/models                                                         *)
(***************************************************************************)
FileInfo(path, directory, size, hash) ==
    [Path |-> path, Directory |-> directory, Size |-> size, Hash |-> hash]

UserAction(action, keepFile, deleteFile, keepDirectory, deleteDirectory) ==
    [Action |-> action, KeepFile |-> keepFile, DeleteFile |-> deleteFile,
     KeepDirectory |-> keepDirectory, DeleteDirectory |-> deleteDirectory]

ZeroAction == UserAction("", NoPath, NoPath, "", "")

ZeroSummary ==
    [TotalSets |-> 0, SetsProcessed |-> 0, FilesDeleted |-> 0, FilesFailed |-> 0,
     SpaceFreed |-> 0, Results |-> <<>>]

(***************************************************************************)
(* internal/scanner: what Scan returns for a directory holding `names`     *)
(***************************************************************************)
Scan(directory, names) ==
    LET ord == SortedNames(names)
    IN  [j \in 1..Len(ord) |->
            FileInfo(<<directory, ord[j]>>, directory, FileSize(<<directory, ord[j]>>), "")]

(***************************************************************************)
(* internal/finder: hashing                                                *)
(***************************************************************************)
\* The digest of a content.
Digest(c) == CASE c = "cA" -> "h1" [] c = "cB" -> "h2" [] OTHER -> "h3"

\* CalculateFileHash on a file that holds c when it is opened: [hash, err];
\* an unreadable file gives ("", err).
CalculateFileHash(c) ==
    IF c = "unreadable"
    THEN [hash |-> "", err |-> "open failed"]
    ELSE [hash |-> Digest(c), err |-> ""]

\* A worker that stores one and the same fingerprint for every file.
HashJobBlind(file, c) == [file EXCEPT !.Hash = "h1"]

\* What one worker does with one job (part_002 lines 45-52).
HashJob(file, c) ==
    LET r == CalculateFileHash(c)
    IN  IF r.err # "" THEN file ELSE [file EXCEPT !.Hash = r.hash]

\* ComputeHashesParallel: the records after the call.  With numWorkers <= 0 no
\* worker is started, the buffered job queue takes every job, and wg.Wait
\* returns at once: nothing is hashed.  reads[j] is what job j finds.
ComputeHashesParallel(files, numWorkers, reads) ==
    IF Len(files) = 0 THEN files
    ELSE IF numWorkers <= 0 THEN files
    ELSE [j \in 1..Len(files) |-> HashJob(files[j], reads[j])]

(***************************************************************************)
(* internal/finder: ComparePair                                            *)
(***************************************************************************)
NumCPU == 2

\* A grouping in which the first record of a basename stays.
groupByNameFirst(files) ==
    [b \in {Base(files[j].Path) : j \in DOMAIN files} |->
        LET first == CHOOSE j \in DOMAIN files :
                         /\ Base(files[j].Path) = b
                         /\ \A l \in DOMAIN files : Base(files[l].Path) = b => l >= j
        IN  files[first]]

\* groupByName: basename -> FileInfo, a later record replacing an earlier one.
groupByName(files) ==
    [b \in {Base(files[j].Path) : j \in DOMAIN files} |->
        LET last == CHOOSE j \in DOMAIN files :
                        /\ Base(files[j].Path) = b
                        /\ \A l \in DOMAIN files : Base(files[l].Path) = b => l <= j
        IN  files[last]]

FileMatch(name, file1, file2) ==
    [Filename |-> name, File1 |-> file1, File2 |-> file2,
     HashChecked |-> FALSE, HashMatch |-> FALSE]

\* A search that takes every name of group1, with the zero FileInfo where
\* group2 has none.
findCommonFilesAll(group1, group2, order) ==
    [j \in 1..Len(order) |->
        FileMatch(order[j], group1[order[j]],
                  IF order[j] \in DOMAIN group2 THEN group2[order[j]]
                  ELSE FileInfo(NoPath, "", 0, ""))]

\* findCommonFiles; `order` is the order in which the range over the map
\* group1 yields its keys.
RECURSIVE findCommonFiles(_, _, _)
findCommonFiles(group1, group2, order) ==
    IF Len(order) = 0 THEN <<>>
    ELSE LET name == Head(order)
             rest == findCommonFiles(group1, group2, Tail(order))
         IN  IF name \in DOMAIN group2
             THEN <<FileMatch(name, group1[name], group2[name])>> \o rest
             ELSE rest

\* A comparison that takes two absent fingerprints for a match.
computeHashesForMatchesEqual(matches, o, reads) ==
    LET files == Flatten([j \in 1..Len(matches) |-> <<matches[j].File1, matches[j].File2>>])
        numWorkers == IF o.NumWorkers > 0 THEN o.NumWorkers * 2 ELSE NumCPU * 2
        hashed == ComputeHashesParallel(files, numWorkers, reads)
    IN  [j \in 1..Len(matches) |->
            LET f1 == hashed[2 * j - 1]
                f2 == hashed[2 * j]
            IN  [matches[j] EXCEPT
                    !.File1 = f1, !.File2 = f2,
                    !.HashChecked = TRUE,
                    !.HashMatch = (f1.Hash = f2.Hash)]]

\* computeHashesForMatches
computeHashesForMatches(matches, o, reads) ==
    LET files == Flatten([j \in 1..Len(matches) |-> <<matches[j].File1, matches[j].File2>>])
        numWorkers == IF o.NumWorkers > 0 THEN o.NumWorkers * 2 ELSE NumCPU * 2
        hashed == ComputeHashesParallel(files, numWorkers, reads)
    IN  [j \in 1..Len(matches) |->
            LET f1 == hashed[2 * j - 1]
                f2 == hashed[2 * j]
            IN  [matches[j] EXCEPT
                    !.File1 = f1, !.File2 = f2,
                    !.HashChecked = TRUE,
                    !.HashMatch = (f1.Hash = f2.Hash /\ f1.Hash # "")]]

\* Matches left in the order they were found.
SortMatchesNone(ms) == ms

\* sort.Slice(matches, by Filename): insertion into an ascending sequence.
RECURSIVE SortMatches(_)
SortMatches(ms) ==
    IF Len(ms) = 0 THEN <<>>
    ELSE LET rest == SortMatches(Tail(ms))
             m == Head(ms)
             before == SelectSeq(rest, LAMBDA r : NameLess(r.Filename, m.Filename))
             after == SelectSeq(rest, LAMBDA r : ~NameLess(r.Filename, m.Filename))
         IN  before \o <<m>> \o after

\* ComparePair; reads[2j-1] and reads[2j] are what the hashing of the j-th
\* match found finds in its two files.
ComparePair(d1Files, d2Files, o, order, reads) ==
    LET group1 == groupByName(d1Files)
        group2 == groupByName(d2Files)
        found == findCommonFiles(group1, group2, order)
        matches == IF o.CompareHash /\ Len(found) > 0
                   THEN computeHashesForMatches(found, o, reads)
                   ELSE found
        dir1 == IF Len(d1Files) > 0 THEN d1Files[1].Directory ELSE ""
        dir2 == IF Len(d2Files) > 0 THEN d2Files[1].Directory ELSE ""
    IN  [Dir1 |-> dir1, Dir2 |-> dir2, Matches |-> SortMatches(matches)]

\* A pairing whose inner loop starts at the directory itself.
GeneratePairsWithSelf(dirs) ==
    Flatten([a \in 1..Len(dirs) |->
                [b \in 1..(Len(dirs) - a + 1) |-> <<dirs[a], dirs[a + b - 1]>>]])

\* GeneratePairs
GeneratePairs(dirs) ==
    Flatten([a \in 1..Len(dirs) |->
                [b \in 1..(Len(dirs) - a) |-> <<dirs[a], dirs[a + b]>>]])

\* runDupFinder, lines 66-86: scan every directory, compare every pair.
\* allFiles is keyed by directory name; reads[p] is what the hashing of the
\* p-th pair finds.
CompareAll(o, listing, reads) ==
    LET allFiles == [d \in Range(o.Directories) |-> Scan(d, listing[d])]
        dirPairs == GeneratePairs(o.Directories)
    IN  [p \in 1..Len(dirPairs) |->
            ComparePair(allFiles[dirPairs[p][1]], allFiles[dirPairs[p][2]], o,
                        SortedNames(listing[dirPairs[p][1]]), reads[p])]

(***************************************************************************)
(* internal/interactive: on-demand hashing of one set                      *)
(***************************************************************************)
DuplicateSet(file1, file2) ==
    [ID |-> 0, Files |-> <<file1, file2>>, Hash |-> "", HashComputed |-> FALSE]

\* A builder that lists the second file of a match first.
convertToDuplicateSetsSwapped(comps) ==
    Flatten([c \in 1..Len(comps) |->
                [m \in 1..Len(comps[c].Matches) |->
                    DuplicateSet(comps[c].Matches[m].File2, comps[c].Matches[m].File1)]])

\* convertToDuplicateSets: one set per match, whatever its hash status.
convertToDuplicateSets(comps) ==
    Flatten([c \in 1..Len(comps) |->
                [m \in 1..Len(comps[c].Matches) |->
                    DuplicateSet(comps[c].Matches[m].File1, comps[c].Matches[m].File2)]])

\* computeHashForSet: [set, err].  The records of filesToHash point into
\* set.Files, so the fingerprints are written even when a mismatch is returned.
\* reads[j] is what set.Files[j] holds if it is opened.
computeHashForSet(set, numWorkers, reads) ==
    LET filesToHash == SelectSeq([j \in DOMAIN set.Files |-> j],
                                 LAMBDA j : set.Files[j].Hash = "")
        hashed == ComputeHashesParallel(
                      [n \in 1..Len(filesToHash) |-> set.Files[filesToHash[n]]], numWorkers,
                      [n \in 1..Len(filesToHash) |-> reads[filesToHash[n]]])
        files == [j \in DOMAIN set.Files |->
                     IF \E n \in DOMAIN filesToHash : filesToHash[n] = j
                     THEN hashed[CHOOSE n \in DOMAIN filesToHash : filesToHash[n] = j]
                     ELSE set.Files[j]]
        firstHash == files[1].Hash
    IN  IF Len(filesToHash) = 0
        THEN [set |-> [set EXCEPT !.HashComputed = TRUE], err |-> ""]
        ELSE IF Len(files) > 0 /\ \E j \in 2..Len(files) : files[j].Hash # firstHash
        THEN [set |-> [set EXCEPT !.Files = files], err |-> "hash mismatch"]
        ELSE [set |-> [set EXCEPT !.Files = files,
                                  !.Hash = IF Len(files) > 0 THEN firstHash ELSE @,
                                  !.HashComputed = TRUE],
              err |-> ""]

(***************************************************************************)
(* internal/interactive: ui.go                                             *)
(***************************************************************************)
HashPrefixLen == 16

\* DisplayDuplicateSet: set.Hash[:16] panics when the hash is shorter.
DisplayDuplicateSet(set) ==
    IF set.HashComputed /\ HashLen(set.Hash) < HashPrefixLen THEN "panic" ELSE "ok"

\* What the user can type at the action prompt; "EOF" is a failed Scanln.
Inputs == {"s", "S", "q", "Q", "f", "F", "h", "H", "1", "2", "a", "A", "b", "B", "x", "EOF"}

Answer(action) == [kind |-> "action", action |-> action, err |-> ""]

Failure(e) == [kind |-> "error", action |-> ZeroAction, err |-> e]

Again == [kind |-> "again", action |-> ZeroAction, err |-> ""]

\* A choice that deletes the first file where the code deletes the second.
DeleteOneSwapped(set, input) ==
    IF input = "1"
    THEN UserAction("delete", set.Files[2].Path, set.Files[1].Path, "", "")
    ELSE UserAction("delete", set.Files[1].Path, set.Files[2].Path, "", "")

\* PromptUserAction, cases "1" and "2": the file kept and the file deleted.
DeleteOne(set, input) ==
    IF input = "1"
    THEN UserAction("delete", set.Files[1].Path, set.Files[2].Path, "", "")
    ELSE UserAction("delete", set.Files[2].Path, set.Files[1].Path, "", "")

\* A prompt that takes the hash request for a verified set as well.
HashOfferedAlways(set) == TRUE

\* ui.go lines 40 and 70: the hash request is open while the set is unverified
HashOffered(set) == ~set.HashComputed

\* PromptUserAction, one round of its loop on one line of input: an action,
\* an error, or "again" when the loop prompts once more.
PromptUserAction(set, allowBatchByDir, input) ==
    CASE input = "EOF" -> Failure("failed to read input")
      [] input \in {"s", "S"} -> Answer(UserAction("skip", NoPath, NoPath, "", ""))
      [] input \in {"q", "Q"} -> Failure("user quit")
      [] input \in {"f", "F"} -> Failure("user finished")
      [] input \in {"h", "H"} ->
            IF HashOffered(set)
            THEN Answer(UserAction("compute_hash", NoPath, NoPath, "", ""))
            ELSE Again
      [] input \in {"1", "2"} -> Answer(DeleteOne(set, input))
      [] input \in {"a", "A"} ->
            IF allowBatchByDir
            THEN Answer(UserAction("batch_delete_by_dir", NoPath, NoPath,
                                   set.Files[1].Directory, set.Files[2].Directory))
            ELSE Again
      [] input \in {"b", "B"} ->
            IF allowBatchByDir
            THEN Answer(UserAction("batch_delete_by_dir", NoPath, NoPath,
                                   set.Files[2].Directory, set.Files[1].Directory))
            ELSE Again
      [] OTHER -> Again

\* What the user can type at the confirmation; "EOF" leaves input empty.
ConfirmInputs == {"y", "Y", "n", "x", "EOF"}

\* A confirmation that executes unless the answer is a plain no.
ConfirmDeletionLax(input) == input # "n"

\* ConfirmDeletion: the error of Scanln is dropped, the answer is y or Y.
ConfirmDeletion(input) == input = "y" \/ input = "Y"

(***************************************************************************)
(* internal/interactive: SafeDelete                                        *)
(***************************************************************************)
\* What SafeDelete can find at a path.
FsKinds == {"regular", "missing", "directory", "locked"}

DeletionResult(path, success, error, sizeFreed) ==
    [Path |-> path, Success |-> success, Error |-> error, SizeFreed |-> sizeFreed]

\* A SafeDelete that does not look at what kind of file it removes.
SafeDeleteUnchecked(path, kind) ==
    CASE kind = "missing" -> DeletionResult(path, FALSE, "cannot access file", 0)
      [] kind = "locked" -> DeletionResult(path, FALSE, "deletion failed", 0)
      [] OTHER -> DeletionResult(path, TRUE, "", FileSize(path))

\* SafeDelete on a path at which the file system holds `kind`.
SafeDelete(path, kind) ==
    CASE kind = "missing" -> DeletionResult(path, FALSE, "cannot access file", 0)
      [] kind = "directory" -> DeletionResult(path, FALSE, "not a regular file", 0)
      [] kind = "locked" -> DeletionResult(path, FALSE, "deletion failed", 0)
      [] OTHER -> DeletionResult(path, TRUE, "", FileSize(path))

(***************************************************************************)
(* internal/interactive: RunInteractiveSession                             *)
(***************************************************************************)
\* A session that offers the batch choices whatever the directories.
allowBatchByDirAlways(o) == TRUE

\* line 23
allowBatchByDir(o) == Len(o.Directories) = 2

\* A test that lets every refusal of the prompt end browsing.
IsFinishedAny(e) == e # ""

\* A test that looks for a message the prompt never returns.
IsFinishedNever(e) == e = "finished"

\* lines 61 and 93: the error that ends browsing without ending the session
IsFinished(e) == e = "user finished"

\* lines 34-39: the directory a set loses its file from, in batch mode
BatchDeleteDir(mode, set) ==
    IF mode = "keep_dir1" THEN set.Files[2].Directory ELSE set.Files[1].Directory

\* lines 42-49 and 111-118: a delete action for every file of the directory
DirActions(set, deleteDir) ==
    LET hit == SelectSeq(set.Files, LAMBDA f : f.Directory = deleteDir)
    IN  [j \in 1..Len(hit) |-> UserAction("delete", NoPath, hit[j].Path, "", "")]

\* lines 104-108
BatchModeOf(action, set) ==
    IF action.KeepDirectory = set.Files[1].Directory THEN "keep_dir1" ELSE "keep_dir2"

\* A plan that takes every answered action, whatever it is.
CollectedAlways(action) == <<action>>

\* lines 126-128: what an answered action adds to the plan
Collected(action) == IF action.Action = "delete" THEN <<action>> ELSE <<>>

\* A summary that forgets how many sets were found.
FoundOnlyNothing(n) == ZeroSummary

\* lines 134 and 140: the summary of a session that deleted nothing
FoundOnly(n) == [ZeroSummary EXCEPT !.TotalSets = n]

\* A summary that starts without the count of the actions.
StartedUncounted(n, acts) == [ZeroSummary EXCEPT !.TotalSets = n]

\* lines 144-147
Started(n, acts) == [ZeroSummary EXCEPT !.TotalSets = n, !.SetsProcessed = Len(acts)]

\* A summary that keeps the result of a successful deletion only.
RecordedOnSuccess(sum, result) ==
    IF result.Success
    THEN [sum EXCEPT !.Results = Append(@, result),
                     !.FilesDeleted = @ + 1,
                     !.SpaceFreed = @ + result.SizeFreed]
    ELSE [sum EXCEPT !.FilesFailed = @ + 1]

\* lines 151-158: one result taken into the summary
Recorded(sum, result) ==
    IF result.Success
    THEN [sum EXCEPT !.Results = Append(@, result),
                     !.FilesDeleted = @ + 1,
                     !.SpaceFreed = @ + result.SizeFreed]
    ELSE [sum EXCEPT !.Results = Append(@, result),
                     !.FilesFailed = @ + 1]

\* The set as the loop body sees it: a copy of sets[i] with its ID assigned.
Current == [sets[i] EXCEPT !.ID = i]

NoHist ==
    [shown |-> <<>>, prompted |-> <<>>, answer |-> <<>>, hashed |-> <<>>, src |-> <<>>,
     batchAt |-> 0, batchDelete |-> "", batchKeep |-> "",
     finishAt |-> 0, finishActions |-> <<>>, quitAt |-> 0, confirm |-> "",
     calls |-> <<>>, computed |-> <<>>, order |-> <<>>, content |-> <<>>,
     displayed |-> <<>>, refused |-> FALSE, readFailed |-> "", hashAsked |-> <<>>]

\* What DisplayDuplicateSet prints of a set: its ID and the paths of its files.
Shown(set) == [ID |-> set.ID, Files |-> [j \in DOMAIN set.Files |-> set.Files[j].Path]]

\* The paths whose fingerprint the comparisons computed, in the order of the
\* pairs: computeHashesForMatches hashes File1 and File2 of every match, and a
\* record that comes back with a Hash was opened and digested.
ComputedIn(comps) ==
    Flatten([c \in 1..Len(comps) |->
                Flatten([m \in 1..Len(comps[c].Matches) |->
                            SelectSeq(<<comps[c].Matches[m].File1, comps[c].Matches[m].File2>>,
                                      LAMBDA f : f.Hash # "")])])

\* The paths whose fingerprint computeHashForSet computed: the records it
\* handed to ComputeHashesParallel that came back with a Hash.
ComputedBy(before, after) ==
    SelectSeq([j \in DOMAIN before.Files |->
                  IF before.Files[j].Hash = "" /\ after.Files[j].Hash # ""
                  THEN after.Files[j].Path ELSE NoPath],
              LAMBDA q : q # NoPath)

\* A test that never finds the list of sets empty.
NothingFoundNever(ss) == FALSE

\* line 16
NothingFound(ss) == Len(ss) = 0

\* lines 13-19
Convert ==
    /\ pc = "start"
    /\ LET ss == convertToDuplicateSets(comparisons)
       IN  /\ sets' = ss
           /\ IF NothingFound(ss)
              THEN /\ pc' = "done"
                   /\ summary' = ZeroSummary
                   /\ i' = i
              ELSE /\ pc' = "loop"
                   /\ summary' = summary
                   /\ i' = 1
           /\ hist' = [hist EXCEPT !.shown = [j \in 1..Len(ss) |-> 0],
                                   !.prompted = [j \in 1..Len(ss) |-> 0],
                                   !.answer = [j \in 1..Len(ss) |-> ""],
                                   !.hashed = [j \in 1..Len(ss) |-> ""],
                                   !.hashAsked = [j \in 1..Len(ss) |-> 0]]
    /\ UNCHANGED <<scanVars, hashVars, pairs, opts, dir1Files, dir2Files, comparisons, actions,
                   batchDirAction, err, k, removed>>

\* lines 32-51: a set met in batch mode
BatchApply ==
    /\ pc = "loop"
    /\ i <= Len(sets)
    /\ batchDirAction # ""
    /\ LET new == DirActions(Current, BatchDeleteDir(batchDirAction, Current))
       IN  /\ actions' = actions \o new
           /\ hist' = [hist EXCEPT !.src = @ \o [j \in 1..Len(new) |-> i]]
    /\ i' = i + 1
    /\ UNCHANGED <<scanVars, hashVars, pairs, opts, dir1Files, dir2Files, comparisons, sets, pc,
                   batchDirAction, summary, err, k, removed>>

\* lines 53-59: the set is displayed and the prompt is entered
Display ==
    /\ pc = "loop"
    /\ i <= Len(sets)
    /\ batchDirAction = ""
    /\ pc' = IF DisplayDuplicateSet(Current) = "panic" THEN "panic" ELSE "prompt"
    /\ hist' = [hist EXCEPT !.shown[i] = @ + 1,
                            !.displayed = Append(@, Shown(Current)),
                            !.prompted[i] = IF pc' = "prompt" THEN @ + 1 ELSE @]
    /\ UNCHANGED <<scanVars, hashVars, pairs, opts, dir1Files, dir2Files, comparisons, sets, i, actions,
                   batchDirAction, summary, err, k, removed>>

\* lines 101-128: an answered action applied to the current set
Apply(action, h) ==
    /\ IF action.Action = "batch_delete_by_dir"
       THEN LET new == DirActions(Current, action.DeleteDirectory)
            IN  /\ batchDirAction' = BatchModeOf(action, Current)
                /\ actions' = actions \o new
                /\ hist' = [h EXCEPT !.src = @ \o [j \in 1..Len(new) |-> i],
                                     !.batchAt = i,
                                     !.batchDelete = action.DeleteDirectory,
                                     !.batchKeep = action.KeepDirectory]
       ELSE LET new == Collected(action)
            IN  /\ batchDirAction' = batchDirAction
                /\ actions' = actions \o new
                /\ hist' = [h EXCEPT !.src = @ \o [j \in 1..Len(new) |-> i]]
    /\ i' = i + 1
    /\ pc' = "loop"
    /\ UNCHANGED <<sets, summary, err>>

\* lines 68-99: compute_hash answered at the first prompt
Hash(h) ==
    \E reads \in ReadsOf(Current.Files[1].Path, Current.Files[2].Path) :
    LET r == computeHashForSet(Current, opts.NumWorkers, reads)
    IN  IF r.err = "hash mismatch"
        THEN /\ sets' = [sets EXCEPT ![i].Files = r.set.Files]
             /\ i' = i + 1
             /\ pc' = "loop"
             /\ hist' = [h EXCEPT !.hashed[i] = "mismatch",
                                  !.computed = @ \o ComputedBy(Current, r.set)]
             /\ UNCHANGED <<actions, batchDirAction, summary, err>>
        ELSE /\ sets' = [sets EXCEPT ![i] = r.set]
             /\ pc' = IF DisplayDuplicateSet(r.set) = "panic" THEN "panic" ELSE "reprompt"
             /\ hist' = [h EXCEPT !.hashed[i] = "verified",
                                  !.computed = @ \o ComputedBy(Current, r.set),
                                  !.shown[i] = @ + 1,
                                  !.displayed = Append(@, Shown(r.set)),
                                  !.prompted[i] = IF pc' = "reprompt" THEN @ + 1 ELSE @]
             /\ UNCHANGED <<i, actions, batchDirAction, summary, err>>

\* lines 59-66 and 91-98: PromptUserAction returned an error
Refused(e, h) ==
    /\ IF IsFinished(e)
       THEN /\ pc' = "after"
            /\ err' = err
       ELSE /\ pc' = "error"
            /\ err' = e
    /\ hist' = h
    /\ UNCHANGED <<sets, i, actions, batchDirAction, summary>>

\* One line of input at the prompt of the current set (first prompt or the
\* prompt after an on-demand hash).
Decide ==
    /\ pc \in {"prompt", "reprompt"}
    /\ \E input \in Inputs :
          LET r == PromptUserAction(Current, allowBatchByDir(opts), input)
              h == [hist EXCEPT
                       !.answer[i] = IF input \in {"1", "2"} THEN input ELSE @,
                       !.quitAt = IF input \in {"q", "Q"} THEN i ELSE @,
                       !.finishAt = IF input \in {"f", "F"} THEN i ELSE @,
                       !.finishActions = IF input \in {"f", "F"} THEN actions ELSE @,
                       !.refused = input \in {"a", "A", "b", "B"} /\ r.kind = "again",
                       !.readFailed = IF input = "EOF" THEN "prompt" ELSE @,
                       !.hashAsked[i] = IF r.action.Action = "compute_hash" THEN @ + 1 ELSE @]
          IN  CASE r.kind = "again" ->
                      /\ hist' = h
                      /\ UNCHANGED <<sets, pc, i, actions, batchDirAction, summary, err>>
                [] r.kind = "error" -> Refused(r.err, h)
                [] OTHER ->
                      IF pc = "prompt" /\ r.action.Action = "compute_hash"
                      THEN Hash(h)
                      ELSE Apply(r.action, h)
    /\ UNCHANGED <<scanVars, hashVars, pairs, opts, dir1Files, dir2Files, comparisons, k, removed>>

\* line 29: the range over sets is exhausted
Exhausted ==
    /\ pc = "loop"
    /\ i > Len(sets)
    /\ pc' = "after"
    /\ UNCHANGED <<scanVars, hashVars, pairs, opts, dir1Files, dir2Files, comparisons, sets, i, actions,
                   batchDirAction, summary, err, k, removed, hist>>

\* lines 131-135
CheckActions ==
    /\ pc = "after"
    /\ IF Len(actions) = 0
       THEN /\ pc' = "done"
            /\ summary' = FoundOnly(Len(sets))
       ELSE /\ pc' = "confirm"
            /\ summary' = summary
    /\ UNCHANGED <<scanVars, hashVars, pairs, opts, dir1Files, dir2Files, comparisons, sets, i, actions,
                   batchDirAction, err, k, removed, hist>>

\* lines 137-147
Confirm ==
    /\ pc = "confirm"
    /\ \E input \in ConfirmInputs :
          /\ hist' = [hist EXCEPT !.confirm = IF input \in {"y", "Y"} THEN "execute"
                                              ELSE "abort",
                                  !.readFailed = IF input = "EOF" THEN "confirm" ELSE @]
          /\ IF ConfirmDeletion(input)
             THEN /\ pc' = "exec"
                  /\ summary' = Started(Len(sets), actions)
                  /\ k' = 1
             ELSE /\ pc' = "done"
                  /\ summary' = FoundOnly(Len(sets))
                  /\ k' = k
    /\ UNCHANGED <<scanVars, hashVars, pairs, opts, dir1Files, dir2Files, comparisons, sets, i, actions,
                   batchDirAction, err, removed>>

\* What the session finds at the path of a scanned file: the file, removable
\* or not, unless this session removed it before.
FoundAt(path) == IF path \in removed THEN {"missing"} ELSE {"regular", "locked"}

\* lines 149-159: one pending action executed
Execute ==
    /\ pc = "exec"
    /\ k <= Len(actions)
    /\ \E kind \in FoundAt(actions[k].DeleteFile) :
          /\ LET result == SafeDelete(actions[k].DeleteFile, kind)
             IN  /\ summary' = Recorded(summary, result)
                 /\ removed' = IF result.Success THEN removed \cup {result.Path}
                               ELSE removed
    /\ hist' = [hist EXCEPT !.calls = Append(@, actions[k].DeleteFile)]
    /\ k' = k + 1
    /\ UNCHANGED <<scanVars, hashVars, pairs, opts, dir1Files, dir2Files, comparisons, sets, pc, i, actions,
                   batchDirAction, err>>

\* line 161
Return ==
    /\ pc = "exec"
    /\ k > Len(actions)
    /\ pc' = "done"
    /\ UNCHANGED <<scanVars, hashVars, pairs, opts, dir1Files, dir2Files, comparisons, sets, i, actions,
                   batchDirAction, summary, err, k, removed, hist>>

(***************************************************************************)
(* The session on what runDupFinder hands to it                            *)
(***************************************************************************)
\* No call of ComputeHashesParallel is being followed.
HashIdle ==
    /\ submitted = <<>>
    /\ heap = <<>>
    /\ concurrency = 0
    /\ jobs = <<>>
    /\ jobsClosed = FALSE
    /\ errors = <<>>
    /\ workers = <<>>
    /\ hpc = "idle"
    /\ sent = 0
    /\ firstError = ""
    /\ disk = <<>>
    /\ hhist = <<>>

\* The files of every directory: the first m names.
Listing(dirs, m) == [d \in Range(dirs) |-> NamesUpTo(m)]

\* How many sets a run over these directories has.
SetCount(dirs, m) == m * Len(GeneratePairs(dirs))

Init ==
    /\ \E dirs \in ArgChoices, w \in WorkerChoices, ch \in BOOLEAN :
          opts = [Directories |-> dirs, CompareHash |-> ch, NumWorkers |-> w]
    /\ \E m \in 0..MaxNames :
          /\ m <= Len(NameOrder)
          /\ SetCount(opts.Directories, m) <= MaxSets
          /\ \E reads \in [1..Len(GeneratePairs(opts.Directories)) -> [1..m -> ReadPairs]] :
                /\ ~opts.CompareHash => \A p \in DOMAIN reads, j \in 1..m :
                                            reads[p][j] = <<"cA", "cA">>
                /\ \A p \in DOMAIN reads, j \in 1..m :
                      reads[p][j] \in ReadsOf(GeneratePairs(opts.Directories)[p][1],
                                              GeneratePairs(opts.Directories)[p][2])
                /\ comparisons =
                      CompareAll(opts, Listing(opts.Directories, m),
                                 [p \in DOMAIN reads |->
                                     Flatten([j \in 1..m |-> reads[p][j]])])
    /\ dir1Files = <<>>
    /\ dir2Files = <<>>
    /\ sets = <<>>
    /\ pc = "start"
    /\ i = 0
    /\ actions = <<>>
    /\ batchDirAction = ""
    /\ summary = ZeroSummary
    /\ err = ""
    /\ k = 0
    /\ removed = {}
    /\ hist = [NoHist EXCEPT !.computed =
                  [n \in DOMAIN ComputedIn(comparisons) |-> ComputedIn(comparisons)[n].Path]]
    /\ pairs = GeneratePairs(opts.Directories)
    /\ HashIdle
    /\ ScanIdle

Next ==
    \/ Convert
    \/ BatchApply
    \/ Display
    \/ Decide
    \/ Exhausted
    \/ CheckActions
    \/ Confirm
    \/ Execute
    \/ Return

Spec == Init /\ [][Next]_vars

(***************************************************************************)
(* ComparePair on the file lists of two scanned directories                *)
(***************************************************************************)
MaxFiles == 2

\* The paths a scan of d can return: the files of d, and below d a second
\* file with the first name.
ScanPaths(d) ==
    {<<d, n>> : n \in NamesUpTo(MaxNames)} \cup {<<d, "sub", NameOrder[1]>>}

\* The lists a scan of d can return: each path once, every record with the
\* root as its Directory and no hash.
ScanResults(d) ==
    LET lists == UNION {{ps \in [1..n -> ScanPaths(d)] :
                            \A a, b \in 1..n : a # b => ps[a] # ps[b]} : n \in 0..MaxFiles}
    IN  {[j \in 1..Len(ps) |-> FileInfo(ps[j], d, FileSize(ps[j]), "")] : ps \in lists}

\* The names both lists hold.
CommonNames(d1Files, d2Files) ==
    DOMAIN groupByName(d1Files) \cap DOMAIN groupByName(d2Files)

InitCompare ==
    /\ \E w \in WorkerChoices, ch \in BOOLEAN :
          opts = [Directories |-> <<"dA", "dB">>, CompareHash |-> ch, NumWorkers |-> w]
    /\ dir1Files \in ScanResults("dA")
    /\ dir2Files \in ScanResults("dB")
    /\ comparisons = <<>>
    /\ sets = <<>>
    /\ pc = "compare"
    /\ i = 0
    /\ actions = <<>>
    /\ batchDirAction = ""
    /\ summary = ZeroSummary
    /\ err = ""
    /\ k = 0
    /\ removed = {}
    /\ hist = NoHist
    /\ pairs = <<>>
    /\ HashIdle
    /\ ScanIdle

\* The names findCommonFiles appends a match for, in the order it meets them.
FoundOrder(order, d2Files) ==
    SelectSeq(order, LAMBDA n : n \in DOMAIN groupByName(d2Files))

\* What the hashing of the matches reads when the two files named n hold
\* content[n]: two reads per match, in the order the matches were found.
ReadsIn(order, d2Files, content) ==
    LET found == FoundOrder(order, d2Files)
    IN  Flatten([j \in 1..Len(found) |-> content[found[j]]])

\* finder.ComparePair(dir1Files, dir2Files)
ComparePairCall ==
    /\ pc = "compare"
    /\ \E order \in Perms(DOMAIN groupByName(dir1Files)) :
       \E content \in [CommonNames(dir1Files, dir2Files) -> ReadPairs] :
          /\ ~opts.CompareHash => \A n \in DOMAIN content : content[n] = <<"cA", "cA">>
          /\ comparisons' = <<ComparePair(dir1Files, dir2Files, opts, order,
                                          ReadsIn(order, dir2Files, content))>>
          /\ hist' = [hist EXCEPT !.order = order, !.content = content]
    /\ pc' = "compared"
    /\ UNCHANGED <<scanVars, hashVars, pairs, opts, dir1Files, dir2Files, sets, i, actions, batchDirAction,
                   summary, err, k, removed>>

NextCompare == ComparePairCall

SpecCompare == InitCompare /\ [][NextCompare]_vars

(***************************************************************************)
(* GeneratePairs on a list of directories                                  *)
(***************************************************************************)
MaxDirs == 4

\* The directories that can be named on the command line.
DirNames == {"dA", "dB", "dC", "dD"}

\* Neither a comparison nor a session has started.
SessionIdle ==
    /\ dir1Files = <<>>
    /\ dir2Files = <<>>
    /\ comparisons = <<>>
    /\ sets = <<>>
    /\ i = 0
    /\ actions = <<>>
    /\ batchDirAction = ""
    /\ summary = ZeroSummary
    /\ err = ""
    /\ k = 0
    /\ removed = {}
    /\ hist = NoHist

InitPairs ==
    /\ \E n \in 0..MaxDirs : \E dirs \in [1..n -> DirNames] :
          opts = [Directories |-> dirs, CompareHash |-> FALSE, NumWorkers |-> NumCPU]
    /\ pc = "pairs"
    /\ pairs = <<>>
    /\ SessionIdle
    /\ HashIdle
    /\ ScanIdle

\* finder.GeneratePairs(args)
GeneratePairsCall ==
    /\ pc = "pairs"
    /\ pairs' = GeneratePairs(opts.Directories)
    /\ pc' = "paired"
    /\ UNCHANGED <<scanVars, hashVars, opts, dir1Files, dir2Files, comparisons, sets, i, actions,
                   batchDirAction, summary, err, k, removed, hist>>

NextPairs == GeneratePairsCall

SpecPairs == InitPairs /\ [][NextPairs]_vars

\* The place of the pair of the a-th and the b-th of K directories, a < b,
\* when the pairs are listed by a and then by b.
PlaceOf(a, b, K) == (a - 1) * K - ((a * (a - 1)) \div 2) + (b - a)

\* C14: GeneratePairs on K directories returns K(K-1)/2 pairs, the pair of
\* dirs[a] and dirs[b] for every a < b listed by a and then by b and nothing
\* else; when the K directories are different from one another no pair
\* holds a directory twice and no pair occurs twice, in either orientation.
C14_AllPairsOnce ==
    pc = "paired" =>
        LET dirs == opts.Directories
            K == Len(dirs)
        IN  /\ Len(pairs) = (K * (K - 1)) \div 2
            /\ \A a, b \in 1..K :
                  a < b => pairs[PlaceOf(a, b, K)] = <<dirs[a], dirs[b]>>
            /\ K <= 1 => pairs = <<>>
            /\ (\A a, b \in 1..K : a # b => dirs[a] # dirs[b]) =>
                  /\ \A n \in DOMAIN pairs : pairs[n][1] # pairs[n][2]
                  /\ \A n, m \in DOMAIN pairs :
                        n # m => /\ pairs[n] # pairs[m]
                                 /\ pairs[n] # <<pairs[m][2], pairs[m][1]>>

\* C14, its case: four different directories paired.
C14_FourDirectories ==
    /\ pc = "paired"
    /\ Len(opts.Directories) = 4
    /\ Cardinality(Range(opts.Directories)) = 4
    /\ Len(pairs) = 6

(***************************************************************************)
(* SafeDelete on a file system                                             *)
(***************************************************************************)
MaxCalls == 2

\* The paths SafeDelete is called on.
DeletePaths == {<<"dA", "x">>, <<"dA", "y">>, <<"dB", "x">>}

\* os.Remove (part_001 line 30) on a path that os.Stat found to be a regular
\* file: the file is gone unless the removal is refused.
OsRemove(fs, path) ==
    IF fs[path] = "locked" THEN fs ELSE [fs EXCEPT ![path] = "missing"]

\* The file system after SafeDelete(path): the two early returns (lines 16-19
\* and 22-25) come before os.Remove is called.
AfterSafeDelete(fs, path) ==
    IF fs[path] \in {"missing", "directory"} THEN fs ELSE OsRemove(fs, path)

InitDelete ==
    /\ disk \in [DeletePaths -> FsKinds]
    /\ hhist = <<>>
    /\ pc = "deleting"
    /\ opts = [Directories |-> <<"dA", "dB">>, CompareHash |-> FALSE, NumWorkers |-> NumCPU]
    /\ pairs = <<>>
    /\ SessionIdle
    /\ ScanIdle
    /\ submitted = <<>>
    /\ heap = <<>>
    /\ concurrency = 0
    /\ jobs = <<>>
    /\ jobsClosed = FALSE
    /\ errors = <<>>
    /\ workers = <<>>
    /\ hpc = "idle"
    /\ sent = 0
    /\ firstError = ""

\* One call of SafeDelete, on any path
SafeDeleteCall ==
    /\ pc = "deleting"
    /\ Len(hhist) < MaxCalls
    /\ \E path \in DeletePaths :
          /\ disk' = AfterSafeDelete(disk, path)
          /\ hhist' = Append(hhist, [path |-> path, before |-> disk, after |-> disk',
                                     result |-> SafeDelete(path, disk[path])])
    /\ UNCHANGED <<scanVars, sessionVars, pairs, submitted, heap, concurrency, jobs, jobsClosed,
                   errors, workers, hpc, sent, firstError>>

NextDelete == SafeDeleteCall

SpecDelete == InitDelete /\ [][NextDelete]_vars

MaxJobs == 2

\* The values of the numWorkers argument.
WorkerCounts == {-1, 0, 1, 2}

\* The records a caller can point to, and the path of each.
Pointers == {1, 2}

PathOf(ptr) == <<"dA", NameOrder[ptr]>>

\* Nothing attempted yet in the first call on these records.
NoHashHist(list, records) ==
    [call |-> 1, before |-> records,
     attempts |-> [n \in DOMAIN list |-> 0],
     outcome |-> [n \in DOMAIN list |-> ""],
     taken |-> [n \in DOMAIN list |-> 0]]

InitHash ==
    /\ \E n \in 0..MaxJobs : submitted \in [1..n -> Pointers]
    /\ heap = [ptr \in Pointers |-> FileInfo(PathOf(ptr), "dA", FileSize(PathOf(ptr)), "")]
    /\ concurrency \in WorkerCounts
    /\ disk \in [{PathOf(ptr) : ptr \in Pointers} -> Contents]
    /\ jobs = <<>>
    /\ jobsClosed = FALSE
    /\ errors = <<>>
    /\ workers = <<>>
    /\ hpc = "call"
    /\ sent = 0
    /\ firstError = ""
    /\ hhist = NoHashHist(submitted, heap)
    /\ opts = [Directories |-> <<"dA">>, CompareHash |-> FALSE, NumWorkers |-> concurrency]
    /\ pc = "hashing"
    /\ pairs = <<>>
    /\ SessionIdle
    /\ ScanIdle

\* part_002 line 36: the capacity of the jobs channel
JobsCap(files) == Len(files)

\* An errors channel without a buffer.
ErrorsCapNone(files) == 0

\* part_002 line 37: the capacity of the errors channel
ErrorsCap(files) == Len(files)

\* A pool with one worker for every file.
PoolSizePerFile(files, numWorkers) == Len(files)

\* part_002 line 40: how many workers the start loop starts
PoolSize(files, numWorkers) == IF numWorkers > 0 THEN numWorkers ELSE 0

\* part_002 lines 32-54: the empty list returns; otherwise the channels are
\* made and numWorkers workers are started.
Enter ==
    /\ hpc = "call"
    /\ IF Len(submitted) = 0
       THEN /\ hpc' = "returned"
            /\ workers' = workers
       ELSE /\ hpc' = "submit"
            /\ workers' = [w \in 1..PoolSize(submitted, concurrency) |->
                               [pc |-> "idle", job |-> 0]]
    /\ UNCHANGED <<scanVars, sessionVars, pairs, submitted, heap, concurrency, jobs, jobsClosed,
                   errors, sent, firstError, disk, hhist>>

\* lines 57-59: jobs <- files[i]; the channel holds len(files) jobs
Submit ==
    /\ hpc = "submit"
    /\ sent < Len(submitted)
    /\ Len(jobs) < JobsCap(submitted)
    /\ jobs' = Append(jobs, sent + 1)
    /\ sent' = sent + 1
    /\ UNCHANGED <<scanVars, sessionVars, pairs, submitted, heap, concurrency, jobsClosed, errors,
                   workers, hpc, firstError, disk, hhist>>

\* line 60: close(jobs)
Close ==
    /\ hpc = "submit"
    /\ sent = Len(submitted)
    /\ jobsClosed' = TRUE
    /\ hpc' = "wait"
    /\ UNCHANGED <<scanVars, sessionVars, pairs, submitted, heap, concurrency, jobs, errors,
                   workers, sent, firstError, disk, hhist>>

\* line 44: a worker receives a job from the channel and opens the file
Take(w) ==
    /\ workers[w].pc = "idle"
    /\ jobs # <<>>
    /\ workers' = [workers EXCEPT ![w] = [pc |-> "hashing", job |-> Head(jobs)]]
    /\ jobs' = Tail(jobs)
    /\ hhist' = [hhist EXCEPT !.taken[Head(jobs)] = @ + 1]
    /\ UNCHANGED <<scanVars, sessionVars, pairs, submitted, heap, concurrency, jobsClosed, errors,
                   hpc, sent, firstError, disk>>

\* A worker that ends at the first job that failed.
AfterErrorStop == "done"

\* line 49: what a worker does after a job that failed
AfterError == "idle"

\* lines 45-51: CalculateFileHash returns; the error is sent or the hash stored
Finish(w) ==
    /\ workers[w].pc = "hashing"
    /\ LET n == workers[w].job
           ptr == submitted[n]
           r == CalculateFileHash(disk[heap[ptr].Path])
       IN  /\ r.err # "" => Len(errors) < ErrorsCap(submitted)
           /\ errors' = IF r.err # "" THEN Append(errors, heap[ptr].Path) ELSE errors
           /\ heap' = [heap EXCEPT ![ptr] = HashJob(@, disk[heap[ptr].Path])]
           /\ workers' = [workers EXCEPT ![w] = [pc |-> IF r.err # "" THEN AfterError
                                                        ELSE "idle",
                                                 job |-> 0]]
           /\ hhist' = [hhist EXCEPT !.attempts[n] = @ + 1,
                                     !.outcome[n] = IF r.err # "" THEN "failed" ELSE "ok"]
    /\ UNCHANGED <<scanVars, sessionVars, pairs, submitted, concurrency, jobs, jobsClosed, hpc,
                   sent, firstError, disk>>

\* lines 44 and 43: the range over the closed, drained channel ends; wg.Done
Exit(w) ==
    /\ workers[w].pc = "idle"
    /\ jobs = <<>>
    /\ jobsClosed
    /\ workers' = [workers EXCEPT ![w].pc = "done"]
    /\ UNCHANGED <<scanVars, sessionVars, pairs, submitted, heap, concurrency, jobs, jobsClosed,
                   errors, hpc, sent, firstError, disk, hhist>>

\* lines 63-64: wg.Wait() returns when every started worker is done
Wait ==
    /\ hpc = "wait"
    /\ \A w \in DOMAIN workers : workers[w].pc = "done"
    /\ hpc' = "collect"
    /\ UNCHANGED <<scanVars, sessionVars, pairs, submitted, heap, concurrency, jobs, jobsClosed,
                   errors, workers, sent, firstError, disk, hhist>>

\* lines 66-76: the errors are drained, the first one is returned
Collect ==
    /\ hpc = "collect"
    /\ firstError' = IF errors = <<>> THEN "" ELSE "error hashing"
    /\ errors' = <<>>
    /\ hpc' = "returned"
    /\ UNCHANGED <<scanVars, sessionVars, pairs, submitted, heap, concurrency, jobs, jobsClosed,
                   workers, sent, disk, hhist>>

\* The caller calls again on the same records, after the files may have
\* changed.
CallAgain ==
    /\ hpc = "returned"
    /\ hhist.call = 1
    /\ disk' \in [DOMAIN disk -> Contents]
    /\ hpc' = "call"
    /\ jobs' = <<>>
    /\ jobsClosed' = FALSE
    /\ errors' = <<>>
    /\ workers' = <<>>
    /\ sent' = 0
    /\ firstError' = ""
    /\ hhist' = [NoHashHist(submitted, heap) EXCEPT !.call = 2]
    /\ UNCHANGED <<scanVars, sessionVars, pairs, submitted, heap, concurrency>>

NextHash ==
    \/ Enter
    \/ Submit
    \/ Close
    \/ \E w \in DOMAIN workers : Take(w)
    \/ \E w \in DOMAIN workers : Finish(w)
    \/ \E w \in DOMAIN workers : Exit(w)
    \/ Wait
    \/ Collect
    \/ CallAgain

SpecHash == InitHash /\ [][NextHash]_vars

\* The workers a call can have.
WorkerIds == {w \in WorkerCounts : w >= 1}

\* The Go scheduler runs every goroutine that can take a step: the caller
\* (lines 32-76) and each worker it started (lines 41-53).
FairHash ==
    /\ WF_vars(Enter)
    /\ WF_vars(Submit)
    /\ WF_vars(Close)
    /\ WF_vars(Wait)
    /\ WF_vars(Collect)
    /\ \A w \in WorkerIds :
          /\ WF_vars(w \in DOMAIN workers /\ Take(w))
          /\ WF_vars(w \in DOMAIN workers /\ Finish(w))
          /\ WF_vars(w \in DOMAIN workers /\ Exit(w))

SpecHashLive == InitHash /\ [][NextHash]_vars /\ FairHash

\* C31: a call with at least one worker returns, whatever the length of the
\* list and whichever files fail: the submitter always finds room in the jobs
\* channel and a worker with a failed hash always finds room in the errors
\* channel; a call on the empty list returns nil without starting a worker.
C31_Terminates ==
    /\ [](Len(submitted) = 0 /\ hpc # "call" =>
            hpc = "returned" /\ workers = <<>> /\ firstError = "")
    /\ []((hpc = "submit" /\ sent < Len(submitted)) => Len(jobs) < JobsCap(submitted))
    /\ [](\A w \in DOMAIN workers :
            workers[w].pc = "hashing" => Len(errors) < ErrorsCap(submitted))
    /\ (concurrency >= 1 /\ hpc = "call") ~> (hpc = "returned")

\* A call with one worker on two files that both fail has returned its error.
C31_AllFailedReturned ==
    /\ hpc = "returned"
    /\ concurrency = 1
    /\ Len(submitted) = 2
    /\ hhist.outcome = <<"failed", "failed">>
    /\ firstError # ""
    /\ \A w \in DOMAIN workers : workers[w].pc = "done"

\* C15: in a second call, a record that carried a fingerprint when the call
\* began is not hashed and keeps that fingerprint, whatever its file holds
\* by then.
C15_PopulatedSkipped ==
    hhist.call = 2 =>
        \A n \in DOMAIN submitted :
            hhist.before[submitted[n]].Hash # "" =>
                /\ hhist.taken[n] = 0
                /\ hhist.attempts[n] = 0
                /\ heap[submitted[n]].Hash = hhist.before[submitted[n]].Hash

\* C17: when ComputeHashesParallel has returned, a hash computation has run
\* to its end for every position of the submitted list, whatever the number
\* of workers asked for.
C17_ReturnsAfterAllAttempted ==
    hpc = "returned" =>
        \A n \in DOMAIN submitted : hhist.attempts[n] >= 1

\* C18: once the workers of a call on a non-empty list are started, there
\* are exactly numWorkers of them, and at least one when numWorkers <= 0.
C18_WorkerCount ==
    (hpc \in {"submit", "wait", "collect", "returned"} /\ Len(submitted) > 0) =>
        /\ concurrency >= 1 => Len(workers) = concurrency
        /\ Len(workers) >= 1

\* C19: when a call in which a hash failed has returned, an error is
\* reported, every position of the list was attempted once, a record whose
\* file cannot be read has the fingerprint it had before the call (none if it
\* had none), and a record whose file can be read has the fingerprint of
\* that file; until the errors are collected there is one error in the
\* channel for every failed attempt.
C19_FailureDoesNotAbort ==
    /\ hpc \in {"submit", "wait", "collect"} =>
          Len(errors) = Cardinality({n \in DOMAIN submitted : hhist.outcome[n] = "failed"})
    /\ (hpc = "returned" /\ \E n \in DOMAIN submitted : hhist.outcome[n] = "failed") =>
          /\ firstError # ""
          /\ \A n \in DOMAIN submitted :
                LET ptr == submitted[n]
                    c == disk[heap[ptr].Path]
                IN  /\ hhist.attempts[n] = 1
                    /\ c = "unreadable" =>
                          /\ hhist.outcome[n] = "failed"
                          /\ heap[ptr].Hash = hhist.before[ptr].Hash
                    /\ c # "unreadable" =>
                          /\ hhist.outcome[n] = "ok"
                          /\ heap[ptr].Hash = Digest(c)

\* C19, its case: one worker, the first file unreadable, the second hashed.
C19_FailedThenHashed ==
    /\ hpc = "returned"
    /\ hhist.call = 1
    /\ concurrency = 1
    /\ submitted = <<1, 2>>
    /\ hhist.outcome = <<"failed", "ok">>
    /\ heap[1].Hash = ""
    /\ heap[2].Hash # ""

\* The workers that have a file open and are hashing it.
Busy == {w \in DOMAIN workers : workers[w].pc = "hashing"}

\* C28: at no moment of a call are more files being read and hashed than the
\* concurrency argument says (none when it is not positive), however many
\* files are submitted.
C28_BoundedPool ==
    /\ Cardinality(Busy) <= (IF concurrency > 0 THEN concurrency ELSE 0)
    /\ Len(workers) <= (IF concurrency > 0 THEN concurrency ELSE 0)

\* One worker for two files: it is hashing the first while the second waits
\* in the queue.
C28_SecondFileWaits ==
    /\ concurrency = 1
    /\ Len(submitted) = 2
    /\ Cardinality(Busy) = 1
    /\ jobs = <<2>>
    /\ hpc = "wait"

RECURSIVE HashSequentially(_, _, _)
HashSequentially(records, list, d) ==
    IF Len(list) = 0 THEN records
    ELSE LET ptr == Head(list)
             r == CalculateFileHash(d[records[ptr].Path])
         IN  HashSequentially(
                 [records EXCEPT ![ptr].Hash = IF r.err = "" THEN r.hash ELSE @],
                 Tail(list), d)

\* C30: when a call with at least one worker has returned, the records are
\* what hashing the list sequentially gives, whatever the interleaving of the
\* workers was: every successfully hashed record has CalculateFileHash of its
\* path, and two of them have equal fingerprints exactly when their files
\* hold the same content.
C30_ParallelMap ==
    (hpc = "returned" /\ concurrency >= 1) =>
        /\ heap = HashSequentially(hhist.before, submitted, disk)
        /\ \A n \in DOMAIN submitted :
              hhist.outcome[n] = "ok" =>
                  /\ CalculateFileHash(disk[heap[submitted[n]].Path]).err = ""
                  /\ heap[submitted[n]].Hash =
                        CalculateFileHash(disk[heap[submitted[n]].Path]).hash
        /\ \A n, o \in DOMAIN submitted :
              (hhist.outcome[n] = "ok" /\ hhist.outcome[o] = "ok") =>
                  (heap[submitted[n]].Hash = heap[submitted[o]].Hash
                      <=> disk[heap[submitted[n]].Path] = disk[heap[submitted[o]].Path])

\* A call with two workers on two files of different content has returned
\* with two different fingerprints.
C30_TwoAtOnce ==
    /\ hpc = "returned"
    /\ concurrency = 2
    /\ submitted = <<1, 2>>
    /\ hhist.outcome = <<"ok", "ok">>
    /\ disk[heap[1].Path] # disk[heap[2].Path]
    /\ heap[1].Hash # heap[2].Hash
    /\ heap[1].Hash # ""
    /\ heap[2].Hash # ""

(***************************************************************************)
(* Properties of the interactive session                                   *)
(***************************************************************************)
\* The entries of the plan that were recorded while set j was the current set.
ActionsOf(j) == {a \in DOMAIN actions : hist.src[a] = j}

\* C1: no SafeDelete call, no removed file and no DeletionResult exists unless
\* the final confirmation was answered y or Y; after any other answer the
\* session is over with no deletion, no result, and a summary in which only
\* the number of sets found is set.
C1_NoDeletionBeforeConfirm ==
    /\ (hist.calls # <<>> \/ removed # {} \/ summary.Results # <<>>) =>
          hist.confirm = "execute"
    /\ pc = "exec" => hist.confirm = "execute"
    /\ hist.confirm = "abort" =>
          /\ pc = "done"
          /\ hist.calls = <<>>
          /\ removed = {}
          /\ summary = [TotalSets |-> Len(sets), SetsProcessed |-> 0, FilesDeleted |-> 0,
                        FilesFailed |-> 0, SpaceFreed |-> 0, Results |-> <<>>]

\* C1, its case: a plan of two deletions refused at the confirmation.
C1_Aborted == hist.confirm = "abort" /\ Len(actions) >= 2 /\ pc = "done"

\* C2: once the user has answered quit at a prompt, the session has ended with
\* the error "user quit", no DeletionResult, no SafeDelete call and no removed
\* file, and the confirmation was never asked.
C2_QuitDeletesNothing ==
    hist.quitAt # 0 =>
        /\ pc = "error"
        /\ err = "user quit"
        /\ summary.Results = <<>>
        /\ hist.calls = <<>>
        /\ removed = {}
        /\ hist.confirm = ""

\* C2, its case: quit at the prompt after an on-demand hash of the second
\* set, with a deletion already recorded.
C2_QuitAtReprompt ==
    /\ hist.quitAt = 2
    /\ hist.prompted[2] = 2
    /\ Len(actions) >= 1
    /\ pc = "error"

\* C3: SafeDelete has been called on the DeleteFile of the first actions of the
\* plan, once each and in the order of the plan, one DeletionResult stands for
\* each call whatever its outcome, and an executed session ends only after
\* every action was attempted.
C3_ExecutesPlanInOrder ==
    /\ Len(hist.calls) <= Len(actions)
    /\ Len(summary.Results) = Len(hist.calls)
    /\ \A j \in DOMAIN hist.calls :
          /\ hist.calls[j] = actions[j].DeleteFile
          /\ summary.Results[j].Path = actions[j].DeleteFile
    /\ pc = "exec" => Len(hist.calls) = k - 1
    /\ (pc = "done" /\ hist.confirm = "execute") => Len(hist.calls) = Len(actions)

\* C3, its case: a failed deletion followed by a successful one.
C3_FailureThenSuccess ==
    /\ pc = "done"
    /\ Len(summary.Results) >= 2
    /\ ~summary.Results[1].Success
    /\ summary.Results[2].Success

\* C4: every set met after the set on which batch-by-directory was activated
\* is neither displayed nor prompted for, and exactly one deletion is recorded
\* for it: the member in the delete-directory, never a member in the
\* keep-directory.
C4_BatchTargets ==
    \A j \in DOMAIN sets :
        (hist.batchAt # 0 /\ hist.batchAt < j /\ j < i) =>
            /\ hist.shown[j] = 0
            /\ hist.prompted[j] = 0
            /\ Cardinality(ActionsOf(j)) = 1
            /\ \A a \in ActionsOf(j) :
                  /\ \E f \in DOMAIN sets[j].Files :
                        /\ sets[j].Files[f].Directory = hist.batchDelete
                        /\ sets[j].Files[f].Path = actions[a].DeleteFile
                  /\ \A f \in DOMAIN sets[j].Files :
                        sets[j].Files[f].Directory = hist.batchKeep =>
                            sets[j].Files[f].Path # actions[a].DeleteFile

C6_FinishStopsBrowsing ==
    hist.finishAt # 0 =>
        /\ pc \in {"after", "confirm", "exec", "done"}
        /\ i = hist.finishAt
        /\ actions = hist.finishActions
        /\ \A a \in DOMAIN actions : hist.src[a] < hist.finishAt
        /\ err = ""
        /\ (pc = "confirm" \/ hist.confirm # "") => Len(hist.finishActions) > 0

\* C6, its case: finish at the prompt after an on-demand hash of the second
\* set, the confirmation reached with the one action recorded before.
C6_FinishAtReprompt ==
    /\ hist.finishAt = 2
    /\ hist.prompted[2] = 2
    /\ Len(actions) = 1
    /\ pc = "confirm"

\* C7: a set for which compute-hash-now was answered and whose members'
\* fingerprints disagree is not marked verified, has no recorded action, was
\* prompted for once only, and the index has moved past it.
C7_DisagreeRejected ==
    \A j \in DOMAIN sets :
        (hist.hashed[j] # "" /\ sets[j].Files[1].Hash # sets[j].Files[2].Hash) =>
            /\ ~sets[j].HashComputed
            /\ ActionsOf(j) = {}
            /\ hist.prompted[j] = 1
            /\ i > j

\* C8: a set for which compute-hash-now was answered and whose members'
\* fingerprints agree is marked verified and was prompted for a second time
\* with the index still on it; what is recorded from that prompt is a member
\* of that set.
C8_AgreeReprompts ==
    \A j \in DOMAIN sets :
        (/\ hist.hashed[j] # ""
         /\ sets[j].Files[1].Hash # ""
         /\ sets[j].Files[1].Hash = sets[j].Files[2].Hash) =>
            /\ sets[j].HashComputed
            /\ hist.prompted[j] = 2
            /\ i >= j
            /\ i = j => pc # "panic"
            /\ \A a \in ActionsOf(j) :
                  \E f \in DOMAIN sets[j].Files : sets[j].Files[f].Path = actions[a].DeleteFile

\* C9: a set for which compute-hash-now was answered and of which a member has
\* no fingerprint is not marked verified.
C9_UnhashedNeverVerified ==
    \A j \in DOMAIN sets :
        (/\ hist.hashed[j] # ""
         /\ \E f \in DOMAIN sets[j].Files : sets[j].Files[f].Hash = "") =>
            ~sets[j].HashComputed

\* C16: within one run (the comparisons of every pair, then the session) the
\* fingerprint of a path is computed at most once.
C16_ComputedOnce ==
    \A a, b \in DOMAIN hist.computed :
        hist.computed[a] = hist.computed[b] => a = b

\* The matches the comparisons found, pair after pair.
AllMatches == Flatten([c \in 1..Len(comparisons) |-> comparisons[c].Matches])

\* C20: when the comparisons verified content, the sets of the session are the
\* checked-identical matches, one set per match in their order, each carrying
\* the common fingerprint and marked verified; no other match yields a set.
C20_EagerSetsAreIdenticalMatches ==
    (pc # "start" /\ opts.CompareHash) =>
        LET identical == SelectSeq(AllMatches, LAMBDA m : m.HashChecked /\ m.HashMatch)
        IN  /\ Len(sets) = Len(identical)
            /\ \A j \in DOMAIN sets :
                  /\ sets[j].Files[1].Path = identical[j].File1.Path
                  /\ sets[j].Files[2].Path = identical[j].File2.Path
                  /\ sets[j].HashComputed
                  /\ sets[j].Hash = identical[j].File1.Hash

C22_EmptyEndsAtOnce ==
    (pc # "start" /\ Len(convertToDuplicateSets(comparisons)) = 0) =>
        /\ pc = "done"
        /\ summary = ZeroSummary
        /\ err = ""
        /\ hist.displayed = <<>>
        /\ hist.shown = <<>>
        /\ hist.prompted = <<>>
        /\ hist.confirm = ""
        /\ hist.readFailed = ""
        /\ hist.calls = <<>>
        /\ removed = {}

\* Directories were compared, none of their pairs had a common name, and the
\* session is over.
C22_NothingInCommon ==
    /\ pc = "done"
    /\ Len(comparisons) > 0
    /\ \A c \in DOMAIN comparisons : Len(comparisons[c].Matches) = 0
    /\ sets = <<>>

\* C23: when browsing ends, by exhaustion or by finish, with no pending action,
\* the confirmation is not asked and the session ends with a summary that
\* counts the sets found and is zero otherwise.
C23_NothingPendingSkipsConfirm ==
    /\ pc = "confirm" => Len(actions) > 0
    /\ (pc = "done" /\ Len(sets) > 0 /\ Len(actions) = 0) =>
          /\ hist.confirm = ""
          /\ hist.calls = <<>>
          /\ removed = {}
          /\ summary = [TotalSets |-> Len(sets), SetsProcessed |-> 0, FilesDeleted |-> 0,
                        FilesFailed |-> 0, SpaceFreed |-> 0, Results |-> <<>>]

\* Finish was answered at the first of several sets with nothing chosen, and
\* the session is over.
C23_FinishedWithNothing ==
    /\ pc = "done"
    /\ Len(sets) >= 2
    /\ Len(actions) = 0
    /\ hist.finishAt = 1

\* The bytes freed by the successful results of a list of results.
RECURSIVE SpaceOf(_)
SpaceOf(results) ==
    IF Len(results) = 0 THEN 0
    ELSE (IF Head(results).Success THEN Head(results).SizeFreed ELSE 0) + SpaceOf(Tail(results))

\* C24: the summary of an executed session counts the sets found, the recorded
\* actions (which is the number of results), the deleted and the failed files
\* (together the number of results) and the bytes of the successful results;
\* one set, one delete decision and a successful deletion give one deleted file
\* and the size of that file.
C24_SummaryAddsUp ==
    (pc = "done" /\ hist.confirm = "execute") =>
        /\ summary.TotalSets = Len(sets)
        /\ summary.SetsProcessed = Len(actions)
        /\ Len(summary.Results) = Len(actions)
        /\ summary.FilesDeleted + summary.FilesFailed = Len(summary.Results)
        /\ summary.FilesDeleted =
              Cardinality({r \in DOMAIN summary.Results : summary.Results[r].Success})
        /\ summary.SpaceFreed = SpaceOf(summary.Results)
        /\ (Len(sets) = 1 /\ Len(actions) = 1 /\ summary.Results[1].Success) =>
              /\ summary.FilesDeleted = 1
              /\ summary.FilesFailed = 0
              /\ summary.SpaceFreed = FileSize(actions[1].DeleteFile)

\* One set, member 2 chosen for deletion, confirmed and deleted.
C24_MemberTwoDeleted ==
    /\ pc = "done"
    /\ hist.confirm = "execute"
    /\ Len(sets) = 1
    /\ hist.answer[1] = "1"
    /\ actions[1].DeleteFile = sets[1].Files[2].Path
    /\ summary.FilesDeleted = 1
    /\ summary.SpaceFreed = FileSize(sets[1].Files[2].Path)
    /\ summary.SpaceFreed > 0

\* C25: unless exactly two directories are compared the session never enters
\* batch mode: the answers a and b give no action, the prompt is repeated for
\* the same set, and every pending action comes from an answer 1 or 2.
C25_BatchOnlyForTwoDirectories ==
    /\ hist.refused => (Len(opts.Directories) # 2 /\ pc \in {"prompt", "reprompt"})
    /\ Len(opts.Directories) # 2 =>
          /\ batchDirAction = ""
          /\ hist.batchAt = 0
          /\ \A a \in DOMAIN actions :
                /\ actions[a].Action = "delete"
                /\ hist.answer[hist.src[a]] \in {"1", "2"}
                /\ actions[a] = DeleteOne(sets[hist.src[a]], hist.answer[hist.src[a]])

\* Three directories: a batch answer was just refused at the second set, which
\* is prompted again.
C25_BatchAnswerRefused ==
    /\ Len(opts.Directories) = 3
    /\ hist.refused
    /\ pc = "prompt"
    /\ i = 2
    /\ hist.prompted[2] = 1

\* C26: once reading the user's input has failed, at the prompt of a set or at
\* the final confirmation, the session has ended with that error and has
\* deleted nothing.
C26_ReadFailureIsFatal ==
    hist.readFailed # "" =>
        /\ pc = "error"
        /\ err = "failed to read input"
        /\ hist.calls = <<>>
        /\ removed = {}

\* C33: no step changes or removes an entry of the plan, and a decision taken
\* at a prompt outside batch mode moves the index on by one and adds to the
\* plan by itself alone: nothing for a skip, and for a delete one entry, which
\* names a member of the current set as the file to delete and the other
\* member as the file to keep.
C33_DecisionAlone ==
    [][/\ Len(actions') >= Len(actions)
       /\ \A a \in DOMAIN actions : actions'[a] = actions[a]
       /\ (pc \in {"prompt", "reprompt"} /\ pc' = "loop" /\ batchDirAction' = "") =>
             /\ i' = i + 1
             /\ IF hist'.answer[i] \in {"1", "2"}
                THEN /\ Len(actions') = Len(actions) + 1
                     /\ hist'.src[Len(actions')] = i
                     /\ actions'[Len(actions')].Action = "delete"
                     /\ \E f, g \in DOMAIN sets[i].Files :
                           /\ f # g
                           /\ actions'[Len(actions')].DeleteFile = sets[i].Files[f].Path
                           /\ actions'[Len(actions')].KeepFile = sets[i].Files[g].Path
                ELSE actions' = actions]_vars

\* The first set was skipped and a member of the second chosen for deletion.
C33_SkipThenDelete ==
    /\ Len(sets) >= 2
    /\ i = 3
    /\ hist.batchAt = 0
    /\ hist.hashed[1] = ""
    /\ hist.answer[1] = ""
    /\ hist.answer[2] \in {"1", "2"}
    /\ Len(actions) = 1
    /\ hist.src = <<2>>
    /\ actions[1].DeleteFile # actions[1].KeepFile

\* C34: the hash request is taken only for a set that is not verified yet, so
\* a set is hashed on demand at most once, displayed and prompted for at most
\* twice (the second time verified); the index never moves backward and never
\* passes the end of the list by more than one.
C34_HashOnceOnePass ==
    /\ [](\A j \in DOMAIN sets :
            /\ hist.hashAsked[j] <= 1
            /\ hist.hashAsked[j] = 1 <=> hist.hashed[j] # ""
            /\ hist.shown[j] <= 2
            /\ hist.prompted[j] <= 2
            /\ hist.prompted[j] = 2 =>
                  (hist.hashed[j] = "verified" /\ sets[j].HashComputed))
    /\ [](pc = "reprompt" =>
            /\ sets[i].HashComputed
            /\ \A input \in {"h", "H"} :
                  PromptUserAction(Current, allowBatchByDir(opts), input).kind = "again")
    /\ [](pc = "prompt" =>
            /\ ~sets[i].HashComputed
            /\ \A input \in {"h", "H"} :
                  PromptUserAction(Current, allowBatchByDir(opts), input).action.Action
                      = "compute_hash")
    /\ [](i <= Len(sets) + 1)
    /\ [][i' >= i]_vars

\* The second set is prompted for again after its hash was asked for and
\* verified; the first set was left behind after a mismatch.
C34_PromptedTwice ==
    /\ Len(sets) >= 2
    /\ pc = "reprompt"
    /\ i = 2
    /\ hist.hashAsked = [j \in DOMAIN sets |-> IF j <= 2 THEN 1 ELSE 0]
    /\ hist.hashed[1] = "mismatch"
    /\ hist.hashed[2] = "verified"
    /\ hist.prompted[2] = 2

\* C35: a set that is marked verified carries a non-empty Hash, which is the
\* fingerprint of each of its members, and displaying a verified set never
\* fails.
C35_VerifiedHasFingerprint ==
    /\ \A j \in DOMAIN sets :
          sets[j].HashComputed =>
              /\ sets[j].Hash # ""
              /\ HashLen(sets[j].Hash) >= HashPrefixLen
              /\ \A f \in DOMAIN sets[j].Files : sets[j].Files[f].Hash = sets[j].Hash
    /\ pc # "panic"

\* C36: for every set, whether decided at its prompt or in batch mode, at most
\* one entry of the plan comes from it, so that one of its two members is kept.
C36_OneMemberKept ==
    \A j \in DOMAIN sets :
        /\ Cardinality(ActionsOf(j)) <= 1
        /\ \E f \in DOMAIN sets[j].Files :
              \A a \in ActionsOf(j) : actions[a].DeleteFile # sets[j].Files[f].Path

\* C37: no path is in the plan more than once.
C37_NoPathTwice ==
    \A a, b \in DOMAIN actions :
        actions[a].DeleteFile = actions[b].DeleteFile => a = b

\* The paths of the copies of a file name that the sets hold.
CopiesOf(name) ==
    {q \in {sets[j].Files[f].Path : j \in DOMAIN sets, f \in {1, 2}} : Base(q) = name}

\* C38: when a session over three or more directories has been confirmed,
\* every matched file name has a copy that is not in the plan.
C38_OneCopySurvives ==
    (Len(opts.Directories) >= 3 /\ hist.confirm = "execute") =>
        \A j \in DOMAIN sets :
            \E q \in CopiesOf(Base(sets[j].Files[1].Path)) :
                \A a \in DOMAIN actions : actions[a].DeleteFile # q

(***************************************************************************)
(* Properties of ComparePair                                               *)
(***************************************************************************)
\* C10: a match of ComparePair is marked HashChecked only if both of its
\* files carry a fingerprint.
C10_CheckedOnlyIfPopulated ==
    \A c \in DOMAIN comparisons :
        \A m \in DOMAIN comparisons[c].Matches :
            comparisons[c].Matches[m].HashChecked =>
                /\ comparisons[c].Matches[m].File1.Hash # ""
                /\ comparisons[c].Matches[m].File2.Hash # ""

\* The basenames of a file list.
BaseNames(files) == {Base(files[j].Path) : j \in DOMAIN files}

\* The file names of a match list, in its order.
FilenamesOf(ms) == [m \in DOMAIN ms |-> ms[m].Filename]

\* C11: ComparePair returns matches only for basenames that both lists hold,
\* one match for each such basename, made of a record of the first list and a
\* record of the second list with that basename; the number of matches is the
\* size of the intersection, and none when the intersection is empty.
C11_MatchesAreCommonNames ==
    pc = "compared" =>
        LET ms == comparisons[1].Matches
            common == BaseNames(dir1Files) \cap BaseNames(dir2Files)
        IN  /\ \A m \in DOMAIN ms :
                  /\ ms[m].Filename \in common
                  /\ \E j \in DOMAIN dir1Files :
                        /\ dir1Files[j].Path = ms[m].File1.Path
                        /\ Base(dir1Files[j].Path) = ms[m].Filename
                  /\ \E j \in DOMAIN dir2Files :
                        /\ dir2Files[j].Path = ms[m].File2.Path
                        /\ Base(dir2Files[j].Path) = ms[m].Filename
            /\ \A a, b \in DOMAIN ms : a # b => ms[a].Filename # ms[b].Filename
            /\ Len(ms) = Cardinality(common)
            /\ common = {} => ms = <<>>

\* C11, its case: two lists of two files that share one basename only.
C11_OneCommonName ==
    /\ pc = "compared"
    /\ Len(dir1Files) = 2
    /\ Len(dir2Files) = 2
    /\ Cardinality(BaseNames(dir1Files)) = 2
    /\ Len(comparisons[1].Matches) = 1

\* C12: after ComparePair with CompareHash on a non-empty match set, every
\* match is HashChecked, its files carry the fingerprints of what was read
\* (none for an unreadable file), and HashMatch is true exactly when both
\* fingerprints are non-empty and equal.
C12_CheckedIdenticalIffEqual ==
    (pc = "compared" /\ opts.CompareHash) =>
        \A m \in DOMAIN comparisons[1].Matches :
            LET mt == comparisons[1].Matches[m]
            IN  /\ mt.HashChecked
                /\ mt.File1.Hash = CalculateFileHash(hist.content[mt.Filename][1]).hash
                /\ mt.File2.Hash = CalculateFileHash(hist.content[mt.Filename][2]).hash
                /\ mt.HashMatch <=> (/\ mt.File1.Hash # ""
                                     /\ mt.File2.Hash # ""
                                     /\ mt.File1.Hash = mt.File2.Hash)

\* C12, its case: one match of identical files and one match of two files
\* that could not be read.
C12_IdenticalAndUnread ==
    /\ pc = "compared"
    /\ opts.CompareHash
    /\ \E a, b \in DOMAIN comparisons[1].Matches :
          /\ comparisons[1].Matches[a].HashMatch
          /\ comparisons[1].Matches[b].File1.Hash = ""
          /\ comparisons[1].Matches[b].File2.Hash = ""
          /\ ~comparisons[1].Matches[b].HashMatch

\* C13: the matches ComparePair returned are in strictly ascending Filename
\* order; their file names are the common basenames in ascending order, which
\* the order of the two lists does not enter, and the comparison is the one
\* that the call returns on the same lists and the same file contents when
\* the map is iterated in ascending order, whatever order it was iterated in.
C13_SortedWhateverTheOrder ==
    pc = "compared" =>
        LET ms == comparisons[1].Matches
        IN  /\ \A m \in 1..(Len(ms) - 1) : NameLess(ms[m].Filename, ms[m + 1].Filename)
            /\ FilenamesOf(ms) = SortedNames(BaseNames(dir1Files) \cap BaseNames(dir2Files))
            /\ LET order == SortedNames(DOMAIN groupByName(dir1Files))
               IN  comparisons[1] = ComparePair(dir1Files, dir2Files, opts, order,
                                                ReadsIn(order, dir2Files, hist.content))

\* C13, its case: two matches that the map yielded in descending order, from
\* lists that name the files in opposite orders.
C13_FoundDescending ==
    /\ pc = "compared"
    /\ Len(comparisons[1].Matches) = 2
    /\ NameLess(hist.order[2], hist.order[1])
    /\ Base(dir1Files[1].Path) = Base(dir2Files[2].Path)
    /\ Base(dir1Files[2].Path) = Base(dir2Files[1].Path)


\* The position of the last record of a list that has this basename.
LastOf(files, name) ==
    CHOOSE j \in DOMAIN files :
        /\ Base(files[j].Path) = name
        /\ \A l \in DOMAIN files : Base(files[l].Path) = name => l <= j

\* C32: when a basename occurs more than once in the list of one side, its
\* match is made with the last record of that name in the list, there is one
\* match for the name, and no earlier record of the name is in any match.
C32_LastRecordWins ==
    \A c \in DOMAIN comparisons :
        LET ms == comparisons[c].Matches
        IN  /\ \A m \in DOMAIN ms :
                  /\ ms[m].File1.Path = dir1Files[LastOf(dir1Files, ms[m].Filename)].Path
                  /\ ms[m].File2.Path = dir2Files[LastOf(dir2Files, ms[m].Filename)].Path
            /\ \A m, o \in DOMAIN ms : ms[m].Filename = ms[o].Filename => m = o
            /\ \A m \in DOMAIN ms :
                  /\ \A j \in DOMAIN dir1Files :
                        (\E l \in DOMAIN dir1Files :
                            l > j /\ Base(dir1Files[l].Path) = Base(dir1Files[j].Path)) =>
                                ms[m].File1.Path # dir1Files[j].Path
                  /\ \A j \in DOMAIN dir2Files :
                        (\E l \in DOMAIN dir2Files :
                            l > j /\ Base(dir2Files[l].Path) = Base(dir2Files[j].Path)) =>
                                ms[m].File2.Path # dir2Files[j].Path

\* The first list holds a basename twice, and the match of that name is made
\* with the second of the two records.
C32_SecondOfTwo ==
    /\ Len(dir1Files) = 2
    /\ Base(dir1Files[1].Path) = Base(dir1Files[2].Path)
    /\ Len(comparisons) = 1
    /\ Len(comparisons[1].Matches) = 1
    /\ comparisons[1].Matches[1].File1.Path = dir1Files[2].Path
    /\ comparisons[1].Matches[1].File1.Path # dir1Files[1].Path

(***************************************************************************)
(* Scanner.Scan and its WorkerPool                                         *)
(*                                                                         *)
(* Three kinds of goroutine take part in one scan: the one that runs Scan  *)
(* (it starts the pool, walks the directory, closes the pool and waits for *)
(* the collector), the pool workers, and the collector.  submitted is the  *)
(* list of the paths the walk submits, in the order of the walk; sent is   *)
(* how many the walk has handed over; concurrency is NumWorkers.           *)
(***************************************************************************)

\* The largest number of files one walk submits.
MaxWalk == 3

\* The values of NumWorkers a scan is followed with.
ScanWorkerCounts == {0, 1, 2}

\* The identities of the workers Start can start.
ScanWorkerIds == {w \in ScanWorkerCounts : w >= 1}

\* filepath.Walk visits the entries of a directory in lexical order, and the
\* filters keep any of them: the lists a walk of dA can submit.
WalkLists ==
    {[j \in DOMAIN names |-> <<"dA", names[j]>>] :
        names \in {SortedNames(S) : S \in {T \in SUBSET Range(NameOrder) :
                                              Cardinality(T) <= MaxWalk}}}

\* make(chan ScanJob, numWorkers*2)
ScanJobsCap(numWorkers) == numWorkers * 2

\* make(chan ScanResult, numWorkers*10)
ScanResultsCap(numWorkers) == numWorkers * 10

InitScan ==
    /\ submitted \in WalkLists
    /\ concurrency \in ScanWorkerCounts
    /\ sent = 0
    /\ jobs = <<>>
    /\ jobsClosed = FALSE
    /\ workers = <<>>
    /\ poolResults = <<>>
    /\ resultsClosed = FALSE
    /\ scanFiles = <<>>
    /\ spc = "start"
    /\ collector = "idle"
    /\ heap = <<>>
    /\ errors = <<>>
    /\ hpc = "idle"
    /\ firstError = ""
    /\ disk = <<>>
    /\ hhist = <<>>
    /\ opts = [Directories |-> <<"dA">>, CompareHash |-> FALSE, NumWorkers |-> concurrency]
    /\ pc = "scanning"
    /\ pairs = <<>>
    /\ SessionIdle

\* scanner.go 30-44: NewWorkerPool, pool.Start() starts numWorkers workers,
\* and the collector goroutine is started
StartPool ==
    /\ spc = "start"
    /\ workers' = [w \in 1..concurrency |-> [pc |-> "idle", job |-> <<>>]]
    /\ collector' = "ranging"
    /\ spc' = "walk"
    /\ UNCHANGED <<sessionVars, pairs, submitted, heap, concurrency, jobs, jobsClosed, errors,
                   hpc, sent, firstError, disk, hhist, poolResults, resultsClosed, scanFiles>>

\* scanner.go 84-88, worker.go 66-68: the walk sends a job on wp.jobs.  The
\* send goes through while the channel has room; a channel of capacity 0
\* passes a value only to a receiver that waits, the receivers are the
\* workers, and with capacity 0 there are none.
WalkSubmit ==
    /\ spc = "walk"
    /\ sent < Len(submitted)
    /\ Len(jobs) < ScanJobsCap(concurrency)
    /\ jobs' = Append(jobs, submitted[sent + 1])
    /\ sent' = sent + 1
    /\ UNCHANGED <<sessionVars, pairs, submitted, heap, concurrency, jobsClosed, errors,
                   workers, hpc, firstError, disk, hhist, scanVars>>

\* scanner.go 93, worker.go 72: the walk is over; close(wp.jobs)
CloseJobs ==
    /\ spc = "walk"
    /\ sent = Len(submitted)
    /\ jobsClosed' = TRUE
    /\ spc' = "closing"
    /\ UNCHANGED <<sessionVars, pairs, submitted, heap, concurrency, jobs, errors, workers,
                   hpc, sent, firstError, disk, hhist, poolResults, resultsClosed, scanFiles,
                   collector>>

\* worker.go 51: a worker receives a job
TakeJob(w) ==
    /\ workers[w].pc = "idle"
    /\ jobs # <<>>
    /\ workers' = [workers EXCEPT ![w] = [pc |-> "busy", job |-> Head(jobs)]]
    /\ jobs' = Tail(jobs)
    /\ UNCHANGED <<sessionVars, pairs, submitted, heap, concurrency, jobsClosed, errors,
                   hpc, sent, firstError, disk, hhist, scanVars>>

\* worker.go 52-61: the worker builds the FileInfo of its job and sends it on
\* wp.results
SendResult(w) ==
    /\ workers[w].pc = "busy"
    /\ Len(poolResults) < ScanResultsCap(concurrency)
    /\ poolResults' = Append(poolResults,
                             FileInfo(workers[w].job, "dA", FileSize(workers[w].job), ""))
    /\ workers' = [workers EXCEPT ![w] = [pc |-> "idle", job |-> <<>>]]
    /\ UNCHANGED <<sessionVars, pairs, submitted, heap, concurrency, jobs, jobsClosed, errors,
                   hpc, sent, firstError, disk, hhist, resultsClosed, scanFiles, spc,
                   collector>>

\* worker.go 50-51: the range over the closed, drained channel ends; wg.Done
ExitWorker(w) ==
    /\ workers[w].pc = "idle"
    /\ jobs = <<>>
    /\ jobsClosed
    /\ workers' = [workers EXCEPT ![w].pc = "done"]
    /\ UNCHANGED <<sessionVars, pairs, submitted, heap, concurrency, jobs, jobsClosed, errors,
                   hpc, sent, firstError, disk, hhist, scanVars>>

\* worker.go 73-74: wg.Wait() returns when every started worker is done;
\* close(wp.results)
PoolWait ==
    /\ spc = "closing"
    /\ \A w \in DOMAIN workers : workers[w].pc = "done"
    /\ resultsClosed' = TRUE
    /\ spc' = "await"
    /\ UNCHANGED <<sessionVars, pairs, hashVars, poolResults, scanFiles, collector>>

\* scanner.go 36-42: the collector receives a result and appends its FileInfo
CollectOne ==
    /\ collector = "ranging"
    /\ poolResults # <<>>
    /\ scanFiles' = Append(scanFiles, Head(poolResults))
    /\ poolResults' = Tail(poolResults)
    /\ UNCHANGED <<sessionVars, pairs, hashVars, resultsClosed, spc, collector>>

\* scanner.go 36 and 43: the range over the closed, drained results channel
\* ends; the collector goes on to send on done
CollectorEnd ==
    /\ collector = "ranging"
    /\ poolResults = <<>>
    /\ resultsClosed
    /\ collector' = "sending"
    /\ UNCHANGED <<sessionVars, pairs, hashVars, poolResults, resultsClosed, scanFiles, spc>>

\* scanner.go 43 and 94-100: done has no buffer, so the collector's send and
\* Scan's receive happen together; Scan returns files
DoneRendezvous ==
    /\ collector = "sending"
    /\ spc = "await"
    /\ collector' = "ended"
    /\ spc' = "returned"
    /\ UNCHANGED <<sessionVars, pairs, hashVars, poolResults, resultsClosed, scanFiles>>

NextScan ==
    \/ StartPool
    \/ WalkSubmit
    \/ CloseJobs
    \/ \E w \in DOMAIN workers : TakeJob(w)
    \/ \E w \in DOMAIN workers : SendResult(w)
    \/ \E w \in DOMAIN workers : ExitWorker(w)
    \/ PoolWait
    \/ CollectOne
    \/ CollectorEnd
    \/ DoneRendezvous

SpecScan == InitScan /\ [][NextScan]_vars

\* The Go scheduler runs every goroutine that can take a step.
FairScan ==
    /\ WF_vars(StartPool)
    /\ WF_vars(WalkSubmit)
    /\ WF_vars(CloseJobs)
    /\ WF_vars(PoolWait)
    /\ WF_vars(CollectOne)
    /\ WF_vars(CollectorEnd)
    /\ WF_vars(DoneRendezvous)
    /\ \A w \in ScanWorkerIds :
          /\ WF_vars(w \in DOMAIN workers /\ TakeJob(w))
          /\ WF_vars(w \in DOMAIN workers /\ SendResult(w))
          /\ WF_vars(w \in DOMAIN workers /\ ExitWorker(w))

SpecScanLive == InitScan /\ [][NextScan]_vars /\ FairScan

\* What Scan returns holds one FileInfo for each submitted job, and nothing
\* is left in the pool.
ScanComplete ==
    /\ Len(scanFiles) = Len(submitted)
    /\ \A j \in DOMAIN submitted :
          Cardinality({f \in DOMAIN scanFiles : scanFiles[f].Path = submitted[j]}) = 1
    /\ jobs = <<>>
    /\ poolResults = <<>>
    /\ collector = "ended"
    /\ \A w \in DOMAIN workers : workers[w].pc = "done"

\* C39: for every NumWorkers >= 0 a scan that has started returns, until it
\* has returned some goroutine can always take a step, and when it returns,
\* files holds exactly one FileInfo for each job the walk submitted, every
\* one of them collected before the return.
C39_ScanReturnsAll ==
    /\ (spc = "start") ~> (spc = "returned")
    /\ [](spc = "returned" \/ ENABLED NextScan)
    /\ [](spc = "returned" => ScanComplete)

\* With at least one worker, a scan that has started returns with one
\* FileInfo for each submitted job.
C39_WithWorkers ==
    /\ (spc = "start" /\ concurrency >= 1) ~> (spc = "returned")
    /\ [](concurrency >= 1 => spc = "returned" \/ ENABLED NextScan)
    /\ [](spc = "returned" => ScanComplete)

\* Without a worker the walk never hands over its first job: the scan stays
\* in the walk for ever.
C39_StuckInWalk ==
    [](concurrency = 0 /\ submitted # <<>> /\ spc = "walk" => [](spc = "walk"))

====
